---- MODULE Spec2Model ----
(***************************************************************************)
(* strip-codeblocks: strip_codeblocks(text) replaces every match of the    *)
(* regular expression (?s)```[^\n`]*\n(.*?)``` by its first capture group. *)
(* The module models the regex match (leftmost start, greedy tag, lazy     *)
(* content) and the replace_all loop that walks the non-overlapping        *)
(* matches from left to right and assembles the returned string.           *)
(***************************************************************************)
EXTENDS Integers, Sequences, FiniteSets, TLC

VARIABLES text, last, out, caps, pc

vars == <<text, last, out, caps, pc>>

(* ------------------------------ characters ----------------------------- *)

\* The backtick character (written BT: the lexer of this language reserves it).
BT == "BT"
NL == "\n"
A  == "a"

Char == {BT, NL, A}

FENCE == <<BT, BT, BT>>

\* Pieces the inputs are assembled from: a whole fence or a single character.
Tok == {FENCE, <<BT>>, <<NL>>, <<A>>}

\* Language tags used for the assembled two-block inputs.
Tags == {<<>>, <<A>>}

(* -------------------------------- bounds ------------------------------- *)

MaxTok == 7

MaxFree == 4

(* ------------------------------- helpers ------------------------------- *)

RECURSIVE Flatten(_)
Flatten(ss) == IF ss = <<>> THEN <<>> ELSE Head(ss) \o Flatten(Tail(ss))

\* s[a..b] as a string, empty when b < a.
Sub(s, a, b) == IF b < a THEN <<>> ELSE SubSeq(s, a, b)

(* ------------------------- the regular expression ---------------------- *)

\* Variant of FenceAt: two backticks are taken for a fence.
FenceAt2(s, i) ==
    /\ i >= 1
    /\ i + 2 <= Len(s)
    /\ s[i] = BT
    /\ s[i + 1] = BT

\* ``` : three backticks starting at index i (1-based).
FenceAt(s, i) ==
    /\ i >= 1
    /\ i + 2 <= Len(s)
    /\ s[i] = BT
    /\ s[i + 1] = BT
    /\ s[i + 2] = BT

\* Variant of TagEnd: [^\n]* , the tag may hold backticks.
RECURSIVE TagEndAny(_, _)
TagEndAny(s, i) ==
    IF i > Len(s) \/ s[i] = NL THEN i ELSE TagEndAny(s, i + 1)

\* [^\n`]* : greedy; the first index >= i that is past the end of s or holds a
\* newline or a backtick.
RECURSIVE TagEnd(_, _)
TagEnd(s, i) ==
    IF i > Len(s) \/ s[i] = NL \/ s[i] = BT THEN i ELSE TagEnd(s, i + 1)

\* Variant of FindFence: (.*)``` , greedy, the last index where three
\* backticks start.
RECURSIVE FindFenceGreedy(_, _)
FindFenceGreedy(s, i) ==
    IF i + 2 > Len(s) THEN 0
    ELSE LET r == FindFenceGreedy(s, i + 1) IN
         IF r # 0 THEN r
         ELSE IF s[i] = BT /\ s[i + 1] = BT /\ s[i + 2] = BT THEN i
         ELSE 0

\* Variant of FindFence: (.*?)(```|$) , the end of the text closes a block.
RECURSIVE FindFenceEof(_, _)
FindFenceEof(s, i) ==
    IF i + 2 > Len(s) THEN Len(s) + 1
    ELSE IF s[i] = BT /\ s[i + 1] = BT /\ s[i + 2] = BT THEN i
    ELSE FindFenceEof(s, i + 1)

\* (.*?)``` : lazy; the first index k >= i where three backticks start, 0 if none.
RECURSIVE FindFence(_, _)
FindFence(s, i) ==
    IF i + 2 > Len(s) THEN 0
    ELSE IF FenceAt(s, i) THEN i
    ELSE FindFence(s, i + 1)

NoMatch == [start |-> 0, open |-> 0, close |-> 0, end |-> 0]

\* The match of the whole pattern anchored at index i, or NoMatch.
\*   start : index of the first backtick of the opening fence
\*   open  : index of the first character of capture group 1
\*   close : index of the first backtick of the closing fence
\*   end   : index of the last backtick of the closing fence
MatchAt(s, i) ==
    IF ~FenceAt(s, i) THEN NoMatch
    ELSE LET j == TagEnd(s, i + 3) IN
         IF j > Len(s) \/ s[j] # NL THEN NoMatch
         ELSE LET k == FindFence(s, j + 1) IN
              IF k = 0 THEN NoMatch
              ELSE [start |-> i, open |-> j + 1, close |-> k, end |-> k + 2]

\* Leftmost match starting at an index > from (from = characters consumed).
RECURSIVE FindMatch(_, _)
FindMatch(s, from) ==
    IF from >= Len(s) THEN NoMatch
    ELSE IF MatchAt(s, from + 1) # NoMatch THEN MatchAt(s, from + 1)
    ELSE FindMatch(s, from + 1)

\* Variant of Group1: the newline that ends the content is taken for a part
\* of the closing fence and dropped.
Group1Trim(s, m) ==
    IF m.close - 1 >= m.open /\ s[m.close - 1] = NL
    THEN Sub(s, m.open, m.close - 2)
    ELSE Sub(s, m.open, m.close - 1)

\* Variant of Group1: the group starts at the newline of the opening line.
Group1KeepNl(s, m) == Sub(s, m.open - 1, m.close - 1)

\* caps.get(1).map_or(String::new(), |m| m.as_str().to_string())
Group1(s, m) == Sub(s, m.open, m.close - 1)

\* The discarded language tag of a match.
TagOf(s, m) == Sub(s, m.start + 3, m.open - 2)

(* ------------------------------- inputs -------------------------------- *)

TokSeqs == UNION {[1..n -> Tok] : n \in 0..MaxTok}

Strs(n) == UNION {[1..k -> Char] : k \in 0..n}

\* P + ```tag1\n + C1 + ``` + T + ```tag2\n + C2 + ``` + S, the five free
\* parts being a string of at most MaxFree characters cut at four places.
TwoBlockInputs ==
    {Sub(f, 1, c[1]) \o FENCE \o t[1] \o <<NL>> \o Sub(f, c[1] + 1, c[2]) \o FENCE
        \o Sub(f, c[2] + 1, c[3])
        \o FENCE \o t[2] \o <<NL>> \o Sub(f, c[3] + 1, c[4]) \o FENCE
        \o Sub(f, c[4] + 1, Len(f)) :
     <<f, c, t>> \in {<<g, d, u>> \in Strs(MaxFree) \X [1..4 -> 0..MaxFree] \X [1..2 -> Tags] :
                        /\ d[1] <= d[2] /\ d[2] <= d[3] /\ d[3] <= d[4]
                        /\ d[4] <= Len(g)}}

\* B + \n\n + ```tag\n + C + \n``` + \n\n + A, the layout of the usage example
\* of the crate documentation; B, C, A are a string of at most MaxFree
\* characters cut at two places.
DocInputs ==
    {Sub(f, 1, c[1]) \o <<NL, NL>> \o FENCE \o t \o <<NL>> \o Sub(f, c[1] + 1, c[2])
        \o <<NL>> \o FENCE \o <<NL, NL>> \o Sub(f, c[2] + 1, Len(f)) :
     <<f, c, t>> \in {<<g, d, u>> \in Strs(MaxFree) \X [1..2 -> 0..MaxFree] \X Tags :
                        d[1] <= d[2] /\ d[2] <= Len(g)}}

(* ----------------------------- the program ----------------------------- *)

\* Entry of strip_codeblocks: nothing consumed, nothing written.
Entry ==
    /\ last = 0
    /\ out = <<>>
    /\ caps = <<>>
    /\ pc = "scan"

Init ==
    /\ \E ts \in TokSeqs : text = Flatten(ts)
    /\ Entry

InitTwo ==
    /\ text \in TwoBlockInputs
    /\ Entry

InitDoc ==
    /\ text \in DocInputs
    /\ Entry

\* Variant of Replace: the scan continues at the closing fence, which can
\* then open the next block.
ReplaceOverlap ==
    /\ pc = "scan"
    /\ LET m == FindMatch(text, last) IN
        /\ m # NoMatch
        /\ out' = out \o Sub(text, last + 1, m.start - 1) \o Group1(text, m)
        /\ last' = m.close - 1
        /\ caps' = Append(caps, m)
    /\ UNCHANGED <<text, pc>>

\* Variant of Replace: the scan position is not moved past the match.
ReplaceStuck ==
    /\ pc = "scan"
    /\ LET m == FindMatch(text, last) IN
        /\ m # NoMatch
        /\ out' = out \o Sub(text, last + 1, m.start - 1) \o Group1(text, m)
        /\ last' = last
        /\ caps' = Append(caps, m)
    /\ UNCHANGED <<text, pc>>

\* One iteration of replace_all: copy the text before the next match, then
\* the replacement (capture group 1), and continue after the match.
Replace ==
    /\ pc = "scan"
    /\ LET m == FindMatch(text, last) IN
        /\ m # NoMatch
        /\ out' = out \o Sub(text, last + 1, m.start - 1) \o Group1(text, m)
        /\ last' = m.end
        /\ caps' = Append(caps, m)
    /\ UNCHANGED <<text, pc>>

\* No further match: copy the rest of the text and return.
Finish ==
    /\ pc = "scan"
    /\ FindMatch(text, last) = NoMatch
    /\ out' = out \o Sub(text, last + 1, Len(text))
    /\ pc' = "done"
    /\ UNCHANGED <<text, last, caps>>

Next == Replace \/ Finish

Spec == Init /\ [][Next]_vars

SpecTwo == InitTwo /\ [][Next]_vars

SpecDoc == InitDoc /\ [][Next]_vars

\* The call runs to completion: a step that can be taken is taken.
FairSpec == Init /\ [][Next]_vars /\ WF_vars(Next)


(* ------------------- vocabulary of the stated properties ---------------- *)

Done == pc = "done"

\* Three backticks start at index i of s.
TripleAt(s, i) ==
    /\ i >= 1
    /\ i + 2 <= Len(s)
    /\ Sub(s, i, i + 2) = FENCE

\* s has a triple-backtick substring.
HasTriple(s) == \E i \in 1..Len(s) : TripleAt(s, i)

\* t can be a language tag: no newline and no backtick.
TagOK(t) == \A i \in 1..Len(t) : t[i] # NL /\ t[i] # BT

Least(S) == CHOOSE x \in S : \A y \in S : x <= y

Greatest(S) == CHOOSE x \in S : \A y \in S : x >= y

\* Index of the first newline of s at or after index i, 0 if there is none.
FirstNL(s, i) ==
    LET N == {j \in i..Len(s) : s[j] = NL} IN IF N = {} THEN 0 ELSE Least(N)

\* The first n characters of s, all of s when it is shorter.
Prefix(s, n) == IF n >= Len(s) THEN s ELSE Sub(s, 1, n)

\* a is a subsequence of b.
RECURSIVE IsSubseq(_, _)
IsSubseq(a, b) ==
    IF a = <<>> THEN TRUE
    ELSE IF b = <<>> THEN FALSE
    ELSE IF Head(a) = Head(b) THEN IsSubseq(Tail(a), Tail(b))
    ELSE IsSubseq(a, Tail(b))

RECURSIVE SumLen(_)
SumLen(ms) ==
    IF ms = <<>> THEN 0
    ELSE 7 + (Head(ms).open - Head(ms).start - 4) + SumLen(Tail(ms))

(* ------------------------------ C1 -------------------------------------- *)

\* s is ``` + tag + newline + CONTENT + ```, the tag without newline or
\* backtick and CONTENT without triple backtick.
SingleBlock(s) ==
    /\ Len(s) >= 7
    /\ TripleAt(s, 1)
    /\ TripleAt(s, Len(s) - 2)
    /\ LET n == FirstNL(s, 4) IN
        /\ n # 0
        /\ n <= Len(s) - 3
        /\ TagOK(Sub(s, 4, n - 1))
        /\ ~HasTriple(Sub(s, n + 1, Len(s) - 3))

ContentOf(s) == Sub(s, FirstNL(s, 4) + 1, Len(s) - 3)

\* C1: the result for a single block ``` + tag + newline + CONTENT + ``` (tag
\* without newline or backtick, CONTENT without triple backtick) is exactly
\* CONTENT.
C1_ContentPreserved == Done /\ SingleBlock(text) => out = ContentOf(text)

\* A single block whose content holds a newline and ends with a backtick has
\* been stripped.
C1_Witness ==
    /\ Done
    /\ SingleBlock(text)
    /\ Len(caps) = 1
    /\ LET c == ContentOf(text) IN
        /\ Len(c) >= 2
        /\ c[Len(c)] = BT
        /\ \E i \in 1..Len(c) : c[i] = NL

(* ------------------------------ C3 -------------------------------------- *)

\* C3: a text without three consecutive backticks is returned unchanged.
C3_BlockFreeFixedPoint == Done /\ ~HasTriple(text) => out = text

\* A block-free text with a double-backtick span followed by a line break has
\* been processed.
C3_Witness ==
    /\ Done
    /\ ~HasTriple(text)
    /\ \E i \in 1..Len(text) - 3 :
        /\ text[i] = BT /\ text[i + 1] = BT /\ text[i + 2] = NL
        /\ \E j \in i + 3..Len(text) - 1 : text[j] = BT /\ text[j + 1] = BT

(* ------------------------------ C5 -------------------------------------- *)

\* The places p such that s is P + ``` + tag + newline + R with Len(P) = p,
\* P and R without triple backtick and the tag without newline or backtick.
UnterminatedAt(s) ==
    {p \in 0..Len(s) :
        /\ TripleAt(s, p + 1)
        /\ ~HasTriple(Sub(s, 1, p))
        /\ LET n == FirstNL(s, p + 4) IN
            /\ n # 0
            /\ TagOK(Sub(s, p + 4, n - 1))
            /\ ~HasTriple(Sub(s, n + 1, Len(s)))}

\* C5: a text with an opening fence line and no closing fence after it is
\* returned unchanged.
C5_UnterminatedUnchanged == Done /\ UnterminatedAt(text) # {} => out = text

\* An unterminated fence with text before it and backticks after its line has
\* been processed.
C5_Witness ==
    /\ Done
    /\ \E p \in UnterminatedAt(text) :
        /\ p >= 1
        /\ text[Len(text)] = BT
        /\ FirstNL(text, p + 4) < Len(text) - 1

(* ------------------------------ C10 ------------------------------------- *)

\* C10: the result is a subsequence of the text, and it is shorter than the
\* text by 7 + the length of the tag for each replaced block.
C10_OnlyDeletes ==
    Done =>
        /\ IsSubseq(out, text)
        /\ Len(text) - Len(out) = SumLen(caps)
        /\ \A i \in 1..Len(caps) :
            caps[i].open - caps[i].start - 4 = Len(TagOf(text, caps[i]))
        /\ Len(out) + 7 * Len(caps) <= Len(text)

\* Two blocks have been replaced, one of them with a tag.
C10_Witness ==
    /\ Done
    /\ Len(caps) = 2
    /\ \E i \in 1..2 : TagOf(text, caps[i]) # <<>>

(* ------------------------------ C2 -------------------------------------- *)

\* Every way to read s as P + ```tag1\n + C1 + ``` + T + ```tag2\n + C2 + ``` + S
\* with the tags free of newline and backtick and P, C1, T, C2, S free of
\* triple backticks.
TwoBlockReadings(s) ==
    UNION {
      LET n1 == FirstNL(s, p + 4) IN
      IF n1 = 0 \/ ~TagOK(Sub(s, p + 4, n1 - 1)) THEN {}
      ELSE UNION {
        UNION {
          LET n2 == FirstNL(s, t + 4) IN
          IF n2 = 0 \/ ~TagOK(Sub(s, t + 4, n2 - 1)) THEN {}
          ELSE {[P  |-> Sub(s, 1, p),
                 C1 |-> Sub(s, n1 + 1, e1),
                 T  |-> Sub(s, e1 + 4, t),
                 C2 |-> Sub(s, n2 + 1, e2),
                 S  |-> Sub(s, e2 + 4, Len(s))] :
                e2 \in {e \in n2..Len(s) :
                          /\ TripleAt(s, e + 1)
                          /\ ~HasTriple(Sub(s, n2 + 1, e))
                          /\ ~HasTriple(Sub(s, e + 4, Len(s)))}}
          : t \in {u \in e1 + 3..Len(s) :
                     TripleAt(s, u + 1) /\ ~HasTriple(Sub(s, e1 + 4, u))}}
        : e1 \in {e \in n1..Len(s) :
                    TripleAt(s, e + 1) /\ ~HasTriple(Sub(s, n1 + 1, e))}}
      : p \in {q \in 0..Len(s) : TripleAt(s, q + 1) /\ ~HasTriple(Sub(s, 1, q))}}

Joined(d) == d.P \o d.C1 \o d.T \o d.C2 \o d.S

\* C2 as stated: for P + block1 + T + block2 + S, each part free of triple
\* backticks, the result is P + C1 + T + C2 + S.
C2_AsStated == Done => \A d \in TwoBlockReadings(text) : out = Joined(d)

\* C2, amended: the same, provided the backticks that end C1 and those that
\* start T do not make up a triple backtick (C1 + T has no triple backtick).
C2_TwoBlocks ==
    Done => \A d \in TwoBlockReadings(text) :
                ~HasTriple(d.C1 \o d.T) => out = Joined(d)

\* Two blocks have been replaced where C1 ends with a backtick, T starts with
\* a backtick and P is not empty.
C2_Witness ==
    /\ Done
    /\ Len(caps) = 2
    /\ \E d \in TwoBlockReadings(text) :
        /\ ~HasTriple(d.C1 \o d.T)
        /\ d.P # <<>>
        /\ d.C1 # <<>> /\ d.C1[Len(d.C1)] = BT
        /\ d.T # <<>> /\ d.T[1] = BT

(* ------------------------------ C4 -------------------------------------- *)

\* s holds a fenced block: ``` + tag + newline, the tag without newline or
\* backtick, followed later by ```.
HasBlock(s) ==
    \E i \in 1..Len(s) :
        /\ TripleAt(s, i)
        /\ LET n == FirstNL(s, i + 3) IN
            /\ n # 0
            /\ TagOK(Sub(s, i + 3, n - 1))
            /\ \E k \in n + 1..Len(s) : TripleAt(s, k)

\* C4: the result holds no fenced block.
C4_NoBlockLeft == Done => ~HasBlock(out)

(* ------------------------------ C6 -------------------------------------- *)

\* Every way to read s as B + \n\n + ```tag\n + C + \n``` + \n\n + A with B, C, A
\* free of triple backticks and the tag free of newline and backtick.
DocReadings(s) ==
    UNION {
      LET n == FirstNL(s, p + 6) IN
      IF n = 0 \/ ~TagOK(Sub(s, p + 6, n - 1)) THEN {}
      ELSE {[B |-> Sub(s, 1, p), C |-> Sub(s, n + 1, e), A |-> Sub(s, e + 7, Len(s))] :
            e \in {x \in n..Len(s) :
                     /\ x + 6 <= Len(s)
                     /\ s[x + 1] = NL
                     /\ TripleAt(s, x + 2)
                     /\ s[x + 5] = NL /\ s[x + 6] = NL
                     /\ ~HasTriple(Sub(s, n + 1, x))
                     /\ ~HasTriple(Sub(s, x + 7, Len(s)))}}
      : p \in {q \in 0..Len(s) :
                 /\ q + 5 <= Len(s)
                 /\ s[q + 1] = NL /\ s[q + 2] = NL
                 /\ TripleAt(s, q + 3)
                 /\ ~HasTriple(Sub(s, 1, q))}}

\* C6: for a block on its own lines between two paragraphs the result is
\* B + \n\n + C + \n\n + A, one blank line between the content and the next text.
C6_DocExample ==
    Done => \A d \in DocReadings(text) :
                out = d.B \o <<NL, NL>> \o d.C \o <<NL, NL>> \o d.A

(* ------------------------------ C7 -------------------------------------- *)

\* C7: the scan terminates for every text, each replaced match moving the scan
\* position strictly forward, and the empty text gives the empty result.
C7_Total ==
    /\ <>Done
    /\ [][pc = "scan" => (pc' = "done" \/ last' > last)]_vars
    /\ [](Done /\ text = <<>> => out = <<>>)

\* The scan has ended after two matches.
C7_Witness == Done /\ Len(caps) = 2 /\ last < Len(text)

(* ------------------------------ C8 -------------------------------------- *)

\* Index of the first triple backtick of s, 0 if there is none.
FirstTriple(s) ==
    IF HasTriple(s) THEN Least({i \in 1..Len(s) : TripleAt(s, i)}) ELSE 0

\* Last index of the line that holds index i: its newline, or the end of s.
LineEnd(s, i) == IF FirstNL(s, i) = 0 THEN Len(s) ELSE FirstNL(s, i)

\* The backticks that follow the first triple backtick of s on its line.
TagBackticks(s) ==
    IF FirstTriple(s) = 0 THEN {}
    ELSE {j \in FirstTriple(s) + 3..LineEnd(s, FirstTriple(s)) : s[j] = BT}

\* C8 as stated: when a backtick follows the first triple backtick on its
\* line, the whole line is copied to the result unchanged.
C8_AsStated ==
    Done /\ TagBackticks(text) # {} =>
        LET e == LineEnd(text, FirstTriple(text)) IN Prefix(out, e) = Prefix(text, e)

\* C8, amended: when a backtick follows the first triple backtick on its line,
\* no replaced block starts at that triple backtick and the line is copied
\* unchanged up to its last three backticks; the whole line is copied unchanged
\* when the last backtick of the line is not the third of three in a row.
C8_BacktickInTag ==
    Done /\ TagBackticks(text) # {} =>
        LET i == FirstTriple(text)
            e == LineEnd(text, i)
            b == Greatest(TagBackticks(text))
        IN  /\ \A c \in 1..Len(caps) : caps[c].start # i
            /\ Prefix(out, b - 3) = Prefix(text, b - 3)
            /\ ~TripleAt(text, b - 2) => Prefix(out, e) = Prefix(text, e)

\* A line with a backtick after its triple backtick was passed over and a
\* block after it was replaced.
C8_Witness ==
    /\ Done
    /\ TagBackticks(text) # {}
    /\ ~TripleAt(text, Greatest(TagBackticks(text)) - 2)
    /\ Len(caps) = 1
    /\ caps[1].start > LineEnd(text, FirstTriple(text))

(* ------------------------------ C9 -------------------------------------- *)

\* Every way to read s as ``` + tag + \n + A + ``` + \n + B + ``` with A and B
\* free of triple backticks and the tag free of newline and backtick.
LazyReadings(s) ==
    IF ~TripleAt(s, 1) \/ ~TripleAt(s, Len(s) - 2) THEN {}
    ELSE LET n == FirstNL(s, 4) IN
         IF n = 0 \/ ~TagOK(Sub(s, 4, n - 1)) THEN {}
         ELSE {[A |-> Sub(s, n + 1, e), B |-> Sub(s, e + 5, Len(s) - 3)] :
               e \in {x \in n..Len(s) :
                        /\ x + 7 <= Len(s)
                        /\ TripleAt(s, x + 1)
                        /\ s[x + 4] = NL
                        /\ ~HasTriple(Sub(s, n + 1, x))
                        /\ ~HasTriple(Sub(s, x + 5, Len(s) - 3))}}

\* C9: for ``` + tag + \n + A + ``` + \n + B + ``` the result is A + \n + B + ```:
\* the block ends at the first triple backtick and that closing fence does not
\* open a second block.
C9_LazyNoOverlap ==
    Done => \A d \in LazyReadings(text) : out = d.A \o <<NL>> \o d.B \o FENCE

\* Such a text, A ending with a backtick and B not empty, has been processed.
C9_Witness ==
    /\ Done
    /\ Len(caps) = 1
    /\ \E d \in LazyReadings(text) :
        /\ d.A # <<>> /\ d.A[Len(d.A)] = BT
        /\ d.B # <<>>

====
